---- MODULE Spec2Model ----
(***************************************************************************)
(* A model of the sudo_plugin / sudo_pair boundary layer:                  *)
(*   - Plugin::new (sudo_plugin/src/plugin/mod.rs), step by step;          *)
(*   - the derived facts Plugin::cwd and Plugin::runas_gids;               *)
(*   - the error types of both crates and the mapping of a Result to the   *)
(*     integer code handed back to sudo (AsSudoPluginRetval).              *)
(***************************************************************************)
EXTENDS Integers, Sequences, FiniteSets, TLC

VARIABLES
    pc,                 \* position inside / after Plugin::new
    debug_assertions,   \* cfg!(debug_assertions) of the build
    raw_version,        \* the c_uint version sudo passes to open
    trace,              \* the inputs Plugin::new has read so far, in order
    version,            \* Option<Version>: the checked version
    settings,           \* Option<Settings>
    user_info,          \* Option<UserInfo>
    command_info,       \* Option<CommandInfo>
    result,             \* Option<Result<Plugin>>: what Plugin::new returned
    open_retval,        \* Option<c_int>: what open handed back to sudo
    last                \* the last call made on the plugin / at the boundary

vars == <<pc, debug_assertions, raw_version, trace, version, settings,
          user_info, command_info, result, open_retval, last>>

(***************************************************************************)
(* Bounds of the model.                                                    *)
(***************************************************************************)
MaxMajor == 2
MaxMinor == 5
MaxGid   == 2
MaxChain == 2

\* Option<T>: the empty set is None, a singleton is Some(x).
Option(S) == {{}} \cup {{x} : x \in S}
None      == {}
Some(x)   == {x}
Unwrap(o) == CHOOSE x \in o : TRUE
\* Option::unwrap_or
UnwrapOr(o, d) == IF o # {} THEN CHOOSE x \in o : TRUE ELSE d

(***************************************************************************)
(* Versions (sudo_plugin::version, used by Plugin::new and by              *)
(* ErrorKind::UnsupportedApiVersion).                                      *)
(***************************************************************************)
\* The packing of sudo's API version: major in the high 16 bits.
Pack(major, minor) == major * 65536 + minor

RawVersions == {Pack(ma, mi) : ma \in 0..MaxMajor, mi \in 0..MaxMinor}

\* Version::from(c_uint)
VersionFrom(raw) == [major |-> raw \div 65536, minor |-> raw % 65536]

\* Version::minimum()
VersionMinimum == [major |-> 1, minor |-> 2]

\* Version::supported: self >= Version::minimum(), major first, then minor
Supported(v) ==
    \/ v.major > VersionMinimum.major
    \/ v.major = VersionMinimum.major /\ v.minor >= VersionMinimum.minor

(***************************************************************************)
(* sudo_plugin::errors                                                     *)
(***************************************************************************)
\* A slip: the error is built around the minimum instead of the version sudo
\* advertised.
UnsupportedApiVersion_minimum(cur) ==
    [name |-> "UnsupportedApiVersion", cur |-> {VersionMinimum}]

\* ErrorKind::UnsupportedApiVersion(cur: Version)
UnsupportedApiVersion(cur) == [name |-> "UnsupportedApiVersion", cur |-> {cur}]
\* ErrorKind::Uninitialized
Uninitialized == [name |-> "Uninitialized", cur |-> {}]
\* ErrorKind::Unauthorized
Unauthorized  == [name |-> "Unauthorized", cur |-> {}]
\* ErrorKind::Msg, the variant error_chain! adds to every ErrorKind
Msg           == [name |-> "Msg", cur |-> {}]

\* display(...) of UnsupportedApiVersion: the version sudo called us with,
\* then Version::minimum()
DisplayUnsupported(kind) ==
    [called |-> Unwrap(kind.cur), minimum |-> VersionMinimum]

\* Error(ErrorKind, State): a kind and the chain of causes behind it
Error(kind, chain) == [kind |-> kind, chain |-> chain]

\* Result<T, Error>
Ok(v)    == [ok |-> TRUE,  val |-> {v}, err |-> {}]
Err(e)   == [ok |-> FALSE, val |-> {},  err |-> {e}]

\* sudo_plugin_sys result codes for open and for the log_* functions
SUDO_PLUGIN_OPEN_SUCCESS       == "open: success"
SUDO_PLUGIN_OPEN_FAILURE       == "open: failure"
SUDO_PLUGIN_OPEN_GENERAL_ERROR == "open: general error"
SUDO_PLUGIN_OPEN_USAGE_ERROR   == "open: usage error"
SUDO_PLUGIN_LOG_OK             == "log: ok"
SUDO_PLUGIN_LOG_REJECT         == "log: reject"
SUDO_PLUGIN_LOG_ERROR          == "log: error"

\* A slip in the open mapping: an Unauthorized error that has causes behind it
\* is reported like any other error.
Error_as_sudo_io_plugin_open_retval_chain(e) ==
    IF e.kind.name = "Unauthorized" /\ e.chain = <<>>
    THEN SUDO_PLUGIN_OPEN_GENERAL_ERROR
    ELSE SUDO_PLUGIN_OPEN_FAILURE

\* A slip in the log mapping: the two arms exchanged.
Error_as_sudo_io_plugin_log_retval_swapped(e) ==
    IF e.kind.name = "Unauthorized"
    THEN SUDO_PLUGIN_LOG_ERROR
    ELSE SUDO_PLUGIN_LOG_REJECT

\* impl AsSudoPluginRetval for Error
Error_as_sudo_io_plugin_open_retval(e) ==
    IF e.kind.name = "Unauthorized"
    THEN SUDO_PLUGIN_OPEN_GENERAL_ERROR
    ELSE SUDO_PLUGIN_OPEN_FAILURE

Error_as_sudo_io_plugin_log_retval(e) ==
    IF e.kind.name = "Unauthorized"
    THEN SUDO_PLUGIN_LOG_REJECT
    ELSE SUDO_PLUGIN_LOG_ERROR

\* impl AsSudoPluginRetval for Result<T, E>
as_sudo_io_plugin_open_retval(r) ==
    IF r.ok
    THEN SUDO_PLUGIN_OPEN_SUCCESS
    ELSE Error_as_sudo_io_plugin_open_retval(Unwrap(r.err))

as_sudo_io_plugin_log_retval(r) ==
    IF r.ok
    THEN SUDO_PLUGIN_LOG_OK
    ELSE Error_as_sudo_io_plugin_log_retval(Unwrap(r.err))

(***************************************************************************)
(* sudo_pair::errors                                                       *)
(***************************************************************************)
\* enum ErrorKind of the pairing layer
PairErrorKinds == {"CommunicationError", "SessionDeclined", "SessionTerminated",
                   "StdinRedirected", "SudoToUserAndGroup"}

\* What a failure::Context may wrap below the kind (an io::Error, say).
PairCauses == {"none", "io"}

\* impl From<Context<ErrorKind>> for Error
PairError_from_context(kind, cause) ==
    [layer |-> "sudo_pair", kind |-> kind, cause |-> cause]

\* impl From<ErrorKind> for Error: Context::new(kind), no cause below it
PairError_from_kind(kind) == PairError_from_context(kind, "none")

\* A slip in the conversion: the error is wrapped as a general initialization
\* error instead of Unauthorized.
SudoPluginError_from_error_uninit(error) == Error(Uninitialized, <<error>>)

\* impl From<Error> for SudoPluginError
SudoPluginError_from_error(error) == Error(Unauthorized, <<error>>)

\* impl From<ErrorKind> for SudoPluginError
SudoPluginError_from_kind(kind) ==
    SudoPluginError_from_error(PairError_from_kind(kind))

(***************************************************************************)
(* The option arrays sudo passes to open, as key -> optional value, and    *)
(* the typed records extracted from them (plugin/settings.rs,              *)
(* plugin/user_info.rs, plugin/command_info.rs).                           *)
(***************************************************************************)
Gids     == 0..MaxGid
Uids     == {1000}
UserCwds == {"/home/user"}
CmdCwds  == {"/srv"}

SettingsTables    == [progname : Option({"sudo"})]
UserInfoTables    == [uid    : Option(Uids),
                      groups : Option(SUBSET Gids \ {{}}),
                      cwd    : Option(UserCwds)]
CommandInfoTables == [runas_egid      : Option(Gids),
                      runas_groups    : Option(SUBSET Gids),
                      preserve_groups : Option(BOOLEAN),
                      cwd             : Option(CmdCwds)]

\* the error of an extractor: a required key is missing from the table
MissingKey(key) ==
    Error(Uninitialized, <<[layer |-> "option_map", kind |-> key, cause |-> "none"]>>)

\* TryFrom<OptionMap> for Settings
Settings_try_from(tbl) ==
    IF tbl.progname = None THEN Err(MissingKey("progname"))
    ELSE Ok([progname |-> Unwrap(tbl.progname)])

\* TryFrom<OptionMap> for UserInfo
UserInfo_try_from(tbl) ==
    IF tbl.uid = None         THEN Err(MissingKey("uid"))
    ELSE IF tbl.groups = None THEN Err(MissingKey("groups"))
    ELSE IF tbl.cwd = None    THEN Err(MissingKey("cwd"))
    ELSE Ok([uid    |-> Unwrap(tbl.uid),
             groups |-> Unwrap(tbl.groups),
             cwd    |-> Unwrap(tbl.cwd)])

\* TryFrom<OptionMap> for CommandInfo
CommandInfo_try_from(tbl) ==
    IF tbl.runas_egid = None THEN Err(MissingKey("runas_egid"))
    ELSE Ok([runas_egid      |-> Unwrap(tbl.runas_egid),
             runas_groups    |-> tbl.runas_groups,
             preserve_groups |-> UnwrapOr(tbl.preserve_groups, FALSE),
             cwd             |-> tbl.cwd])

(***************************************************************************)
(* Plugin::new                                                             *)
(***************************************************************************)
\* Version::check
Version_check(v) ==
    IF Supported(v) THEN Ok(v) ELSE Err(Error(UnsupportedApiVersion(v), <<>>))

\* A slip: argv is parsed before the version is checked.
NewOrder_argv_first ==
    <<"argv", "version", "settings", "user_info", "command_info",
      "user_env", "plugin_options">>

\* A slip: user_info is extracted before settings.
NewOrder_user_info_first ==
    <<"version", "argv", "user_info", "settings", "command_info",
      "user_env", "plugin_options">>

\* The order in which Plugin::new reads its arguments.
NewOrder == <<"version", "argv", "settings", "user_info", "command_info",
              "user_env", "plugin_options">>

\* the argument Plugin::new reads next
NextInput ==
    IF pc = "new" /\ Len(trace) < Len(NewOrder)
    THEN NewOrder[Len(trace) + 1]
    ELSE "none"

\* `?` on an Err: the locals are dropped and new returns the error
NewReturnErr(e) ==
    /\ pc' = "returned"
    /\ result' = Some(Err(e))
    /\ version' = None
    /\ settings' = None
    /\ user_info' = None
    /\ command_info' = None
    /\ UNCHANGED <<debug_assertions, raw_version, open_retval, last>>

\* let version = Version::from(version).check()?;
new_version ==
    /\ NextInput = "version"
    /\ LET r == Version_check(VersionFrom(raw_version)) IN
       IF r.ok
       THEN /\ version' = r.val
            /\ trace' = Append(trace, "version")
            /\ UNCHANGED <<pc, debug_assertions, raw_version, settings,
                           user_info, command_info, result, open_retval, last>>
       ELSE /\ trace' = Append(trace, "version")
            /\ NewReturnErr(Unwrap(r.err))

\* slice::from_raw_parts(argv, argc) ... collect(): the command being run
new_argv ==
    /\ NextInput = "argv"
    /\ trace' = Append(trace, "argv")
    /\ UNCHANGED <<pc, debug_assertions, raw_version, version, settings,
                   user_info, command_info, result, open_retval, last>>

\* settings: OptionMap::from_raw(settings as _).try_into()?,
new_settings ==
    /\ NextInput = "settings"
    /\ \E tbl \in SettingsTables :
         LET r == Settings_try_from(tbl) IN
         /\ trace' = Append(trace, "settings")
         /\ IF r.ok
            THEN /\ settings' = r.val
                 /\ UNCHANGED <<pc, debug_assertions, raw_version, version,
                                user_info, command_info, result, open_retval,
                                last>>
            ELSE NewReturnErr(Unwrap(r.err))

\* user_info: OptionMap::from_raw(user_info as _).try_into()?,
new_user_info ==
    /\ NextInput = "user_info"
    /\ \E tbl \in UserInfoTables :
         LET r == UserInfo_try_from(tbl) IN
         /\ trace' = Append(trace, "user_info")
         /\ IF r.ok
            THEN /\ user_info' = r.val
                 /\ UNCHANGED <<pc, debug_assertions, raw_version, version,
                                settings, command_info, result, open_retval,
                                last>>
            ELSE NewReturnErr(Unwrap(r.err))

\* command_info: OptionMap::from_raw(command_info as _).try_into()?,
new_command_info ==
    /\ NextInput = "command_info"
    /\ \E tbl \in CommandInfoTables :
         LET r == CommandInfo_try_from(tbl) IN
         /\ trace' = Append(trace, "command_info")
         /\ IF r.ok
            THEN /\ command_info' = r.val
                 /\ UNCHANGED <<pc, debug_assertions, raw_version, version,
                                settings, user_info, result, open_retval, last>>
            ELSE NewReturnErr(Unwrap(r.err))

\* user_env: OptionMap::from_raw(user_env as _),
new_user_env ==
    /\ NextInput = "user_env"
    /\ trace' = Append(trace, "user_env")
    /\ UNCHANGED <<pc, debug_assertions, raw_version, version, settings,
                   user_info, command_info, result, open_retval, last>>

\* plugin_options: OptionMap::from_raw(plugin_options as _),
new_plugin_options ==
    /\ NextInput = "plugin_options"
    /\ trace' = Append(trace, "plugin_options")
    /\ UNCHANGED <<pc, debug_assertions, raw_version, version, settings,
                   user_info, command_info, result, open_retval, last>>

\* let plugin = Self { ... }; Ok(plugin)
new_return_ok ==
    /\ pc = "new"
    /\ Len(trace) = Len(NewOrder)
    /\ pc' = "returned"
    /\ result' = Some(Ok([version      |-> Unwrap(version),
                          settings     |-> Unwrap(settings),
                          user_info    |-> Unwrap(user_info),
                          command_info |-> Unwrap(command_info)]))
    /\ version' = None
    /\ settings' = None
    /\ user_info' = None
    /\ command_info' = None
    /\ UNCHANGED <<debug_assertions, raw_version, trace, open_retval, last>>

\* The open callback hands the result of the initialization to sudo.
open ==
    /\ pc = "returned"
    /\ open_retval' = Some(as_sudo_io_plugin_open_retval(Unwrap(result)))
    /\ pc' = IF Unwrap(result).ok THEN "opened" ELSE "failed"
    /\ UNCHANGED <<debug_assertions, raw_version, trace, version, settings,
                   user_info, command_info, result, last>>

(***************************************************************************)
(* The derived facts of a constructed Plugin                               *)
(***************************************************************************)
\* the Plugin that new returned, if it returned one
plugin ==
    IF result # None /\ Unwrap(result).ok THEN Unwrap(result).val ELSE None

\* A slip: the override is ignored.
cwd_user_only(self) == self.user_info.cwd

\* Plugin::cwd
cwd(self) == UnwrapOr(self.command_info.cwd, self.user_info.cwd)

\* the debug_assert! of Plugin::runas_gids that fails on self
runas_gids_assert_fails(self) ==
    IF self.command_info.preserve_groups
    THEN ~(self.command_info.runas_groups = None)
    ELSE ~(self.command_info.runas_groups # None)

\* A slip: runas_egid is not added to the set.
runas_gids_no_egid(self) ==
    UnwrapOr(self.command_info.runas_groups, self.user_info.groups)

\* A slip: preserve_groups decides the base set.
runas_gids_by_flag(self) ==
    (IF self.command_info.preserve_groups
     THEN self.user_info.groups
     ELSE UnwrapOr(self.command_info.runas_groups, self.user_info.groups))
      \cup {self.command_info.runas_egid}

\* Plugin::runas_gids, past its assertions
runas_gids(self) ==
    LET set == UnwrapOr(self.command_info.runas_groups, self.user_info.groups)
    IN  set \cup {self.command_info.runas_egid}

NoCall == [op |-> "none", returned |-> FALSE, path |-> {}, gids |-> {}]

\* a call of Plugin::cwd
call_cwd ==
    /\ pc = "opened"
    /\ last' = [op |-> "cwd", returned |-> TRUE,
                path |-> Some(cwd(Unwrap(plugin))), gids |-> {}]
    /\ UNCHANGED <<pc, debug_assertions, raw_version, trace, version, settings,
                   user_info, command_info, result, open_retval>>

\* A slip: assert! in place of debug_assert!, evaluated in every build.
call_runas_gids_assert ==
    /\ pc = "opened"
    /\ IF runas_gids_assert_fails(Unwrap(plugin))
       THEN /\ pc' = "panicked"
            /\ last' = [op |-> "runas_gids", returned |-> FALSE,
                        path |-> {}, gids |-> {}]
       ELSE /\ pc' = pc
            /\ last' = [op |-> "runas_gids", returned |-> TRUE,
                        path |-> {}, gids |-> Some(runas_gids(Unwrap(plugin)))]
    /\ UNCHANGED <<debug_assertions, raw_version, trace, version, settings,
                   user_info, command_info, result, open_retval>>

\* a call of Plugin::runas_gids
call_runas_gids ==
    /\ pc = "opened"
    /\ IF debug_assertions /\ runas_gids_assert_fails(Unwrap(plugin))
       THEN /\ pc' = "panicked"
            /\ last' = [op |-> "runas_gids", returned |-> FALSE,
                        path |-> {}, gids |-> {}]
       ELSE /\ pc' = pc
            /\ last' = [op |-> "runas_gids", returned |-> TRUE,
                        path |-> {}, gids |-> Some(runas_gids(Unwrap(plugin)))]
    /\ UNCHANGED <<debug_assertions, raw_version, trace, version, settings,
                   user_info, command_info, result, open_retval>>

(***************************************************************************)
(* Specification of one authorization request.                             *)
(***************************************************************************)
Init ==
    /\ pc = "new"
    /\ debug_assertions \in BOOLEAN
    /\ raw_version \in RawVersions
    /\ trace = <<>>
    /\ version = None
    /\ settings = None
    /\ user_info = None
    /\ command_info = None
    /\ result = None
    /\ open_retval = None
    /\ last = NoCall

Next ==
    \/ new_version
    \/ new_argv
    \/ new_settings
    \/ new_user_info
    \/ new_command_info
    \/ new_user_env
    \/ new_plugin_options
    \/ new_return_ok
    \/ open
    \/ call_cwd
    \/ call_runas_gids

Spec == Init /\ [][Next]_vars

(***************************************************************************)
(* Specification of the host boundary: results of the plugin layer and     *)
(* errors raised by the pairing layer are turned into the code handed to   *)
(* sudo by open and by the log_* functions.                                *)
(***************************************************************************)
\* An Err handed to sudo ends the session (pc = "closed"); after an Ok
\* sudo goes on calling log_*.

\* what a chain of causes is made of
Causes ==
    {PairError_from_context(k, c) : k \in PairErrorKinds, c \in PairCauses}
      \cup {[layer |-> "option_map", kind |-> "uid", cause |-> "none"]}

RECURSIVE Chains(_)
Chains(n) ==
    IF n = 0 THEN {<<>>}
    ELSE LET shorter == Chains(n - 1) IN
         shorter \cup {<<c>> \o ch : c \in Causes,
                                     ch \in {x \in shorter : Len(x) = n - 1}}

PluginErrorKinds ==
    {Uninitialized, Unauthorized, Msg}
      \cup {UnsupportedApiVersion(VersionFrom(raw)) :
              raw \in {r \in RawVersions : ~Supported(VersionFrom(r))}}

PluginErrors == {Error(k, ch) : k \in PluginErrorKinds, ch \in Chains(MaxChain)}

Calls == {"open", "log"}

\* the code the boundary function `call` hands to sudo for the result r
Retval(call, r) ==
    IF call = "open"
    THEN as_sudo_io_plugin_open_retval(r)
    ELSE as_sudo_io_plugin_log_retval(r)

NoRaise == [layer |-> "none", kind |-> "none", cause |-> "none"]

\* open or log_* returns a result of the plugin layer
boundary_result ==
    /\ pc = "boundary"
    /\ \E call \in Calls, r \in {Ok("unit")} \cup {Err(e) : e \in PluginErrors} :
         /\ last' = [op |-> call, raised |-> NoRaise, via |-> "none",
                     result |-> r, retval |-> Retval(call, r)]
         /\ pc' = IF r.ok THEN "boundary" ELSE "closed"
    /\ UNCHANGED <<debug_assertions, raw_version, trace, version, settings,
                   user_info, command_info, result, open_retval>>

\* the pairing layer raises an Error inside open or log_*; `?` converts it
boundary_pair_error ==
    /\ pc = "boundary"
    /\ \E call \in Calls, k \in PairErrorKinds, c \in PairCauses :
         LET raised == PairError_from_context(k, c)
             r      == Err(SudoPluginError_from_error(raised))
         IN  /\ last' = [op |-> call, raised |-> raised, via |-> "Error",
                         result |-> r, retval |-> Retval(call, r)]
             /\ pc' = "closed"
    /\ UNCHANGED <<debug_assertions, raw_version, trace, version, settings,
                   user_info, command_info, result, open_retval>>

\* the pairing layer raises a bare ErrorKind inside open or log_*
boundary_pair_kind ==
    /\ pc = "boundary"
    /\ \E call \in Calls, k \in PairErrorKinds :
         LET r == Err(SudoPluginError_from_kind(k))
         IN  /\ last' = [op |-> call, raised |-> PairError_from_kind(k),
                         via |-> "ErrorKind",
                         result |-> r, retval |-> Retval(call, r)]
             /\ pc' = "closed"
    /\ UNCHANGED <<debug_assertions, raw_version, trace, version, settings,
                   user_info, command_info, result, open_retval>>

InitBoundary ==
    /\ pc = "boundary"
    /\ debug_assertions = FALSE
    /\ raw_version = Pack(VersionMinimum.major, VersionMinimum.minor)
    /\ trace = <<>>
    /\ version = None
    /\ settings = None
    /\ user_info = None
    /\ command_info = None
    /\ result = None
    /\ open_retval = None
    /\ last = [op |-> "none", raised |-> NoRaise, via |-> "none",
               result |-> Ok("unit"), retval |-> "none"]

NextBoundary ==
    \/ boundary_result
    \/ boundary_pair_error
    \/ boundary_pair_kind

SpecBoundary == InitBoundary /\ [][NextBoundary]_vars

(***************************************************************************)
(* Properties of the host boundary (checked under SpecBoundary).           *)
(***************************************************************************)
\* the error inside the result of the last boundary call
LastErr == Unwrap(last.result.err)

\* C1: the code handed to sudo is a function of the error kind alone: for
\* open, Ok gives success, Unauthorized gives general error and every other
\* kind gives failure; for log_*, Ok gives ok, Unauthorized gives reject and
\* every other kind gives error; whatever the chain of causes, no error ever
\* gives success or ok.
C1_RetvalByKind ==
    last.op \in Calls =>
        /\ last.op = "open" =>
             last.retval =
               IF last.result.ok THEN SUDO_PLUGIN_OPEN_SUCCESS
               ELSE IF LastErr.kind.name = "Unauthorized"
                    THEN SUDO_PLUGIN_OPEN_GENERAL_ERROR
                    ELSE SUDO_PLUGIN_OPEN_FAILURE
        /\ last.op = "log" =>
             last.retval =
               IF last.result.ok THEN SUDO_PLUGIN_LOG_OK
               ELSE IF LastErr.kind.name = "Unauthorized"
                    THEN SUDO_PLUGIN_LOG_REJECT
                    ELSE SUDO_PLUGIN_LOG_ERROR
        /\ ~last.result.ok =>
             last.retval \notin {SUDO_PLUGIN_OPEN_SUCCESS, SUDO_PLUGIN_LOG_OK}

\* C1 witness: open returned an Unauthorized error that has a chain of causes.
C1_Witness ==
    /\ last.op = "open"
    /\ ~last.result.ok
    /\ LastErr.kind.name = "Unauthorized"
    /\ Len(LastErr.chain) > 0
    /\ last.retval = SUDO_PLUGIN_OPEN_GENERAL_ERROR

\* C2: every pairing-layer error, converted from an Error or from a bare
\* ErrorKind, becomes a plugin error of kind Unauthorized whose only cause is
\* the original error, and sudo is handed general error by open and reject by
\* log_*.
C2_PairErrorsUnauthorized ==
    last.via \in {"Error", "ErrorKind"} =>
        /\ last.raised.kind \in PairErrorKinds
        /\ ~last.result.ok
        /\ LastErr.kind = Unauthorized
        /\ LastErr.chain = <<last.raised>>
        /\ last.op = "open" => last.retval = SUDO_PLUGIN_OPEN_GENERAL_ERROR
        /\ last.op = "log"  => last.retval = SUDO_PLUGIN_LOG_REJECT

\* C2 witness: a bare SessionDeclined raised inside a log_* function.
C2_Witness ==
    /\ last.via = "ErrorKind"
    /\ last.op = "log"
    /\ last.raised.kind = "SessionDeclined"
    /\ last.retval = SUDO_PLUGIN_LOG_REJECT

\* C3 as stated: a pairing-layer error reaches the return-code mapping with
\* its own kind and is reported as failure (open) / error (log_*).
C3_Original ==
    last.via \in {"Error", "ErrorKind"} =>
        /\ LastErr.kind.name = last.raised.kind
        /\ last.retval \in {SUDO_PLUGIN_OPEN_FAILURE, SUDO_PLUGIN_LOG_ERROR}

\* C3 (amended): a pairing-layer error does not keep its kind up to the
\* boundary: it reaches the return-code mapping under a kind that is none of
\* the five pairing kinds, its own kind survives at the head of the chain of
\* causes, and it is never reported as failure (open) or error (log_*).
C3_PairKindNotPropagated ==
    last.via \in {"Error", "ErrorKind"} =>
        /\ LastErr.kind.name \notin PairErrorKinds
        /\ LastErr.kind.name # last.raised.kind
        /\ Len(LastErr.chain) >= 1
        /\ LastErr.chain[1].kind = last.raised.kind
        /\ last.retval \notin {SUDO_PLUGIN_OPEN_FAILURE, SUDO_PLUGIN_LOG_ERROR}

\* C3 witness: a CommunicationError with an io cause raised inside open.
C3_Witness ==
    /\ last.via = "Error"
    /\ last.op = "open"
    /\ last.raised.kind = "CommunicationError"
    /\ last.raised.cause = "io"
    /\ last.retval = SUDO_PLUGIN_OPEN_GENERAL_ERROR

(***************************************************************************)
(* Properties of one authorization request (checked under Spec).           *)
(***************************************************************************)
\* the Plugin of the request, once new has returned it
P == Unwrap(plugin)

\* the error new returned
NewErr == Unwrap(Unwrap(result).err)

NewFailed == result # None /\ ~Unwrap(result).ok

\* preserve_groups and runas_groups contradict each other
Inconsistent(ci) == ci.preserve_groups = (ci.runas_groups # None)

\* C4: whatever the combination of preserve_groups (set or unset) and
\* runas_groups (present or absent), a set returned by runas_gids() contains
\* command_info.runas_egid.
C4_RunasEgidInSet ==
    (last.op = "runas_gids" /\ last.returned) =>
        P.command_info.runas_egid \in Unwrap(last.gids)

\* C4 witness: preserve_groups is set, runas_groups is present, and neither
\* runas_groups nor the invoking user's groups list runas_egid.
C4_Witness ==
    /\ last.op = "runas_gids"
    /\ last.returned
    /\ P.command_info.preserve_groups
    /\ P.command_info.runas_groups # None
    /\ P.command_info.runas_egid \notin Unwrap(P.command_info.runas_groups)
    /\ P.command_info.runas_egid \notin P.user_info.groups

C6_Original ==
    /\ pc # "panicked"
    /\ last.op = "runas_gids" => last.returned

\* C6 (amended): in a build without debug assertions runas_gids() returns a
\* set for a consistent and for an inconsistent CommandInfo alike and never
\* aborts; in a build with debug assertions it panics exactly when
\* preserve_groups and runas_groups contradict each other.
C6_FatalOnlyInDebugBuild ==
    /\ last.op = "runas_gids" =>
         (last.returned <=>
            ~(debug_assertions /\ Inconsistent(P.command_info)))
    /\ pc = "panicked" <=> (last.op = "runas_gids" /\ ~last.returned)

\* C6 witness: without debug assertions, an inconsistent CommandInfo
\* (preserve_groups unset, runas_groups absent) and runas_gids() returned.
C6_Witness ==
    /\ ~debug_assertions
    /\ last.op = "runas_gids"
    /\ last.returned
    /\ ~P.command_info.preserve_groups
    /\ P.command_info.runas_groups = None

\* the sequence s starts with the sequence t
IsPrefix(t, s) ==
    /\ Len(t) <= Len(s)
    /\ \A i \in 1..Len(t) : t[i] = s[i]

\* C7: Plugin::new validates the API version before it reads argv or any of
\* the five option arrays: the version is the first thing read, and when it
\* is below the minimum new returns an UnsupportedApiVersion error having
\* read nothing else, and no Plugin is constructed.
C7_VersionCheckedFirst ==
    /\ trace # <<>> => trace[1] = "version"
    /\ (trace # <<>> /\ raw_version < Pack(1, 2)) =>
         /\ trace = <<"version">>
         /\ NewFailed
         /\ NewErr.kind.name = "UnsupportedApiVersion"
         /\ plugin = None
         /\ pc \in {"returned", "failed"}
    /\ (NewFailed /\ NewErr.kind.name = "UnsupportedApiVersion") =>
         trace = <<"version">>

\* C7 witness: sudo advertised 1.1 and open has failed.
C7_Witness ==
    /\ raw_version = Pack(1, 1)
    /\ pc = "failed"
    /\ NewErr.kind.name = "UnsupportedApiVersion"
    /\ trace = <<"version">>

RequiredKeys(stage) ==
    CASE stage = "settings"     -> {"progname"}
      [] stage = "user_info"    -> {"uid", "groups", "cwd"}
      [] stage = "command_info" -> {"runas_egid"}
      [] OTHER                  -> {}

\* C9: initialization is all-or-nothing and fail-closed: new extracts
\* Settings, then UserInfo, then CommandInfo; the first extraction that
\* fails makes new return that error at once, with no Plugin constructed,
\* and the code open hands to sudo for it is never success.
C9_InitAllOrNothing ==
    /\ IsPrefix(trace, <<"version", "argv", "settings", "user_info",
                         "command_info", "user_env", "plugin_options">>)
    /\ NewFailed =>
         /\ plugin = None
         /\ version = None /\ settings = None
         /\ user_info = None /\ command_info = None
         /\ pc \in {"returned", "failed"}
         /\ open_retval # None =>
              Unwrap(open_retval) \in {SUDO_PLUGIN_OPEN_FAILURE,
                                       SUDO_PLUGIN_OPEN_GENERAL_ERROR}
         /\ NewErr.kind.name = "Uninitialized" =>
              /\ Len(NewErr.chain) = 1
              /\ NewErr.chain[1].kind \in RequiredKeys(trace[Len(trace)])
    /\ pc = "failed" => NewFailed /\ open_retval # None
    /\ pc \in {"opened", "panicked"} =>
         /\ plugin # None
         /\ open_retval = {SUDO_PLUGIN_OPEN_SUCCESS}
         /\ Len(trace) = 7
    /\ (open_retval # None /\ Unwrap(open_retval) = SUDO_PLUGIN_OPEN_SUCCESS)
         => plugin # None

\* C9 witness: user_info lacks the invoking user's id and open has failed,
\* command_info never having been read.
C9_Witness ==
    /\ pc = "failed"
    /\ NewErr.chain # <<>>
    /\ NewErr.chain[1].kind = "uid"
    /\ trace = <<"version", "argv", "settings", "user_info">>
    /\ open_retval = {SUDO_PLUGIN_OPEN_FAILURE}

\* C10: cwd() returns command_info.cwd when that override is present and
\* user_info.cwd otherwise; it always returns a value, and the call leaves
\* the plugin unchanged.
C10_Cwd ==
    [][call_cwd =>
         /\ last'.returned
         /\ last'.path # None
         /\ last'.path = (IF P.command_info.cwd # None
                          THEN P.command_info.cwd
                          ELSE {P.user_info.cwd})
         /\ plugin' = plugin
         /\ pc' = pc]_vars

\* C10 witness: cwd() was called on a plugin whose command_info overrides the
\* invoking user's cwd.
C10_Witness ==
    /\ last.op = "cwd"
    /\ P.command_info.cwd # None
    /\ last.path = {"/srv"}
    /\ P.user_info.cwd # "/srv"

====
